---- MODULE Spec2Model ----
(***************************************************************************)
(* Model of sdkdocgen (src/src/main.rs): a Python module's syntax tree is  *)
(* turned into one MDX document.                                           *)
(*                                                                         *)
(* Text.  A Rust String is modelled as a sequence of tokens (TLA+ strings).*)
(* Whitespace, the newline and quote characters are tokens of their own,   *)
(* so trimming, splitting at a blank line and counting lines are computed  *)
(* on the text and not assumed.  push_str and format! are concatenation.   *)
(*                                                                         *)
(* Trees.  An expression is a record [kind, id, kids]; a statement is a    *)
(* record [kind, exprs, body, orelse]; Option<T> is a sequence of length   *)
(* at most one.                                                            *)
(***************************************************************************)
EXTENDS Integers, Sequences, FiniteSets, TLC

VARIABLES
    pc,                \* position of main, or of the function under study
    overflow_checks,   \* build profile: TRUE = arithmetic overflow panics (debug)
    ast,               \* the parsed module: a sequence of top-level statements
    idx,               \* main's loop index over ast (src/src/main.rs:427)
    markdown_content,  \* main's accumulated document (src/src/main.rs:405)
    output_file,       \* sequence of documents written to the .mdx file
    input,             \* argument of the function under study
    output             \* its return value

vars == <<pc, overflow_checks, ast, idx, markdown_content, output_file, input, output>>

(***************************************************************************)
(* Bounds                                                                  *)
(***************************************************************************)
\* largest number of nodes of an annotation expression tree
MaxNodes == 4
\* largest number of positional-or-keyword parameters (args.args) of a function
MaxArgs == 3
\* largest number of keyword-only parameters of a function
MaxKwOnly == 2
\* largest number of positional-only parameters of a function
MaxPosOnly == 1
\* largest number of statements, nested ones included, of a function body
MaxStmts == 3
\* largest number of top-level statements of the input module
MaxModule == 3

(***************************************************************************)
(* Text helpers                                                            *)
(***************************************************************************)
NL == "\n"
\* the backtick character (written out: the character cannot occur in a TLA+ string)
BT == "&#96;"

RECURSIVE Flatten(_)
\* concatenation of a sequence of strings (Vec<String> pushed in order)
Flatten(ss) == IF ss = <<>> THEN <<>> ELSE Head(ss) \o Flatten(Tail(ss))

RECURSIVE Join(_, _)
\* [String]::join(sep)
Join(ss, sep) ==
    IF ss = <<>> THEN <<>>
    ELSE IF Len(ss) = 1 THEN ss[1]
    ELSE ss[1] \o sep \o Join(Tail(ss), sep)

IsPrefix(s, t) == Len(s) <= Len(t) /\ SubSeq(t, 1, Len(s)) = s

\* number of positions of s holding token c
Count(s, c) == Cardinality({i \in 1..Len(s) : s[i] = c})

\* the positions of s holding token c, in increasing order
Positions(s, c) == SelectSeq([i \in 1..Len(s) |-> i], LAMBDA i : s[i] = c)

\* the lines of a text: the runs of tokens ended by a newline token, and
\* what follows the last newline if anything does
Lines(s) ==
    LET nl == Positions(s, NL)
        start(k) == IF k = 1 THEN 1 ELSE nl[k - 1] + 1
        whole == [k \in 1..Len(nl) |-> SubSeq(s, start(k), nl[k] - 1)]
    IN IF start(Len(nl) + 1) <= Len(s)
       THEN Append(whole, SubSeq(s, start(Len(nl) + 1), Len(s)))
       ELSE whole

(***************************************************************************)
(* Expressions (rustpython_parser::ast::Expr)                              *)
(***************************************************************************)
Name(id) == [kind |-> "Name", id |-> <<id>>, kids |-> <<>>]
Attribute(value, attr) == [kind |-> "Attribute", id |-> <<attr>>, kids |-> <<value>>]
Subscript(value, slice) == [kind |-> "Subscript", id |-> <<>>, kids |-> <<value, slice>>]
List(elts) == [kind |-> "List", id |-> <<>>, kids |-> elts]
Tuple(elts) == [kind |-> "Tuple", id |-> <<>>, kids |-> elts]
\* kids[1] is call.func, the rest call.args
Call(func, args) == [kind |-> "Call", id |-> <<>>, kids |-> <<func>> \o args]
BinOp(left, op, right) == [kind |-> "BinOp", id |-> <<op>>, kids |-> <<left, right>>]
\* Expr::Constant with Constant::Str(value): id is the text of the string
StrConstant(value) == [kind |-> "StrConstant", id |-> value, kids |-> <<>>]
\* Expr::Constant with any other value
IntConstant(n) == [kind |-> "IntConstant", id |-> <<n>>, kids |-> <<>>]
\* a kind extract_type has no arm for
Compare(left, right) == [kind |-> "Compare", id |-> <<"Gt">>, kids |-> <<left, right>>]

RECURSIVE EscapeDebug(_)
\* <str as Debug>: control and quote characters are escaped, so the dump of
\* a string never holds a newline
EscapeDebug(s) ==
    IF s = <<>> THEN <<>>
    ELSE (CASE Head(s) = NL -> <<"\\n">>
            [] Head(s) = "\"" -> <<"\\\"">>
            [] OTHER -> <<Head(s)>>) \o EscapeDebug(Tail(s))

RECURSIVE DebugExpr(_)
\* format!("{:?}", expr): the derived one-line structural dump of the node
DebugExpr(e) ==
    <<e.kind, "(">> \o EscapeDebug(e.id)
        \o Flatten([i \in 1..Len(e.kids) |-> <<", ">> \o DebugExpr(e.kids[i])])
        \o <<")">>

RECURSIVE extract_type(_)

\* extract_type with the brackets of the List arm forgotten
extract_type_list_unbracketed(annotation) ==
    IF annotation.kind = "List"
    THEN Join([i \in 1..Len(annotation.kids) |-> extract_type(annotation.kids[i])], <<", ">>)
    ELSE IF annotation.kind \in {"Name", "IntConstant"} THEN annotation.id
    ELSE <<annotation.kind>> \o Flatten([i \in 1..Len(annotation.kids) |->
                                            extract_type(annotation.kids[i])])

extract_type(annotation) ==
    LET k == annotation.kids
        each(es) == [i \in 1..Len(es) |-> extract_type(es[i])]
    IN CASE annotation.kind = "Name" -> annotation.id
         [] annotation.kind = "Attribute" ->
                extract_type(k[1]) \o <<".">> \o annotation.id
         [] annotation.kind = "Subscript" ->
                LET value_type == extract_type(k[1])
                    slice_type == IF k[2].kind = "Tuple"
                                  THEN Join(each(k[2].kids), <<", ">>)
                                  ELSE extract_type(k[2])
                IN value_type \o <<"[">> \o slice_type \o <<"]">>
         [] annotation.kind = "List" ->
                <<"[">> \o Join(each(k), <<", ">>) \o <<"]">>
         [] annotation.kind = "Tuple" ->
                <<"(">> \o Join(each(k), <<", ">>) \o <<")">>
         [] annotation.kind = "Call" ->
                extract_type(k[1]) \o <<"[">> \o Join(each(Tail(k)), <<", ">>) \o <<"]">>
         [] annotation.kind = "BinOp" ->
                extract_type(k[1]) \o <<" | ">> \o extract_type(k[2])
         [] OTHER -> DebugExpr(annotation)


(***************************************************************************)
(* Inputs of extract_type: every expression tree of at most MaxNodes nodes *)
(***************************************************************************)
Idents == {"int"}

Leaves ==
    {Name(n) : n \in Idents} \cup {IntConstant("1"), List(<<>>), Tuple(<<>>)}

\* the trees with a root and the kids fs
TreesOver(fs) ==
    LET one == {f \in fs : Len(f) = 1}
        two == {f \in fs : Len(f) = 2}
    IN  {Attribute(f[1], "attr") : f \in one}
        \cup {Subscript(f[1], f[2]) : f \in two}
        \cup {List(f) : f \in fs}
        \cup {Tuple(f) : f \in fs}
        \cup {Call(f[1], Tail(f)) : f \in fs}
        \cup {BinOp(f[1], "BitOr", f[2]) : f \in two}
        \cup {Compare(f[1], f[2]) : f \in two}

RECURSIVE Trees(_), Forests(_)
\* the sequences of trees with n nodes in all
Forests(n) ==
    IF n = 0 THEN {<<>>}
    ELSE UNION {{<<t>> \o f : t \in Trees(m), f \in Forests(n - m)} : m \in 1..n}

\* the trees with exactly n nodes
Trees(n) == IF n = 1 THEN Leaves ELSE TreesOver(Forests(n - 1))

Exprs == UNION {Trees(n) : n \in 1..MaxNodes}

\* number of nodes of a tree
RECURSIVE Size(_)
Size(e) == 1 + (LET RECURSIVE sum(_)
                    sum(i) == IF i = 0 THEN 0 ELSE Size(e.kids[i]) + sum(i - 1)
                IN sum(Len(e.kids)))

(***************************************************************************)
(* Specification of extract_type applied to one annotation                 *)
(***************************************************************************)
Idle == /\ overflow_checks = TRUE /\ ast = <<>> /\ idx = 0
        /\ markdown_content = <<>> /\ output_file = <<>>

InitType ==
    /\ pc = "call"
    /\ input \in Exprs
    /\ output = <<>>
    /\ Idle

ApplyExtractType ==
    /\ pc = "call"
    /\ output' = extract_type(input)
    /\ pc' = "returned"
    /\ UNCHANGED <<overflow_checks, ast, idx, markdown_content, output_file, input>>

NextType == ApplyExtractType

SpecType == InitType /\ [][NextType]_vars

(***************************************************************************)
(* C5: extract_type returns, and returns a non-empty string, for every     *)
(* annotation tree; every recursive call it makes is on a proper subtree   *)
(* of its argument, so the recursion is well founded.                      *)
(***************************************************************************)
\* the arguments of the recursive calls one activation of extract_type makes
extract_type_calls(annotation) ==
    LET k == annotation.kids
    IN CASE annotation.kind = "Attribute" -> <<k[1]>>
         [] annotation.kind = "Subscript" ->
                <<k[1]>> \o (IF k[2].kind = "Tuple" THEN k[2].kids ELSE <<k[2]>>)
         [] annotation.kind \in {"List", "Tuple", "Call", "BinOp"} -> k
         [] OTHER -> <<>>

C5_ExtractTypeTotal ==
    /\ pc = "call" =>
          \A i \in 1..Len(extract_type_calls(input)) :
              Size(extract_type_calls(input)[i]) < Size(input)
    /\ pc = "returned" => Len(output) >= 1

C5_Witness ==
    /\ pc = "returned"
    /\ input = Subscript(Name("int"), Tuple(<<IntConstant("1")>>))
    /\ output = <<"int", "[", "IntConstant", "(", "1", ")", "]">>

(***************************************************************************)
(* Parameters (rustpython_parser::ast::Arguments, ArgWithDefault)          *)
(***************************************************************************)
None == <<>>
Some(x) == <<x>>

ArgWithDefault(name, annotation, default) ==
    [arg |-> name, annotation |-> annotation, default |-> default]

Arguments(posonlyargs, args, kwonlyargs) ==
    [posonlyargs |-> posonlyargs, args |-> args, kwonlyargs |-> kwonlyargs]

RECURSIVE SelectDefaults(_)
SelectDefaults(ps) ==
    IF ps = <<>> THEN <<>>
    ELSE ps[1].default \o SelectDefaults(Tail(ps))

\* Arguments::defaults(): the defaults of posonlyargs, then of args
defaults_of(args) == SelectDefaults(args.posonlyargs \o args.args)

\* what a - b yields on usize when b > a and overflow is not checked.  usize has
\* 64 bits; the model keeps a narrower word, wide enough that every length of
\* the model is far below it, so the comparisons come out as on the machine.
UsizeModulus == 2 ^ 30

\* usize subtraction: [panic, value]
usize_sub(a, b, checks) ==
    IF a >= b THEN [panic |-> FALSE, value |-> a - b]
    ELSE IF checks THEN [panic |-> TRUE, value |-> 0]
    ELSE [panic |-> FALSE, value |-> (a - b) + UsizeModulus]

annotation_text(a) ==
    IF a.annotation = None THEN <<"Any">> ELSE extract_type(a.annotation[1])

table_row(name, arg_type, description, default) ==
    <<"| ", BT, name, BT, " | ", BT>> \o arg_type \o <<BT, " | ">> \o description
        \o <<" | ">> \o default \o <<" |", NL>>

args_table_header ==
    <<NL, "**Parameters:**", NL, NL, "| Name | Type | Description | Default |", NL,
      "| --- | --- | --- | --- |", NL>>

\* positional_default with the defaults paired from the front of the parameter
\* list instead of its tail
positional_default_leading(args, i, checks) ==
    LET defaults == defaults_of(args)
    IN IF i < Len(defaults)
       THEN [panic |-> FALSE, text |-> DebugExpr(defaults[i + 1])]
       ELSE [panic |-> FALSE, text |-> <<"_required_">>]

\* the Default cell of positional parameter i (0-based): [panic, text]
positional_default(args, i, checks) ==
    LET args_len == Len(args.args)
        defaults == defaults_of(args)
        defaults_len == Len(defaults)
        diff == usize_sub(args_len, defaults_len, checks)
    IN IF diff.panic THEN [panic |-> TRUE, text |-> <<>>]
       ELSE IF i >= diff.value
            THEN [panic |-> FALSE, text |-> DebugExpr(defaults[(i - diff.value) + 1])]
            ELSE [panic |-> FALSE, text |-> <<"_required_">>]

RECURSIVE positional_rows(_, _, _)
\* the loop over args.args from index i on: [panic, text]
positional_rows(args, i, checks) ==
    IF i >= Len(args.args) THEN [panic |-> FALSE, text |-> <<>>]
    ELSE LET arg == args.args[i + 1]
             default == positional_default(args, i, checks)
             rest == positional_rows(args, i + 1, checks)
         IN IF default.panic \/ rest.panic THEN [panic |-> TRUE, text |-> <<>>]
            ELSE [panic |-> FALSE,
                  text |-> table_row(arg.arg, annotation_text(arg), <<>>, default.text)
                               \o rest.text]

\* kwonly_rows showing a keyword-only parameter's own default when it has one
kwonly_rows_with_defaults(args) ==
    Flatten([i \in 1..Len(args.kwonlyargs) |->
                table_row(args.kwonlyargs[i].arg, annotation_text(args.kwonlyargs[i]), <<>>,
                          IF args.kwonlyargs[i].default = None THEN <<"_required_">>
                          ELSE DebugExpr(args.kwonlyargs[i].default[1]))])

\* the loop over args.kwonlyargs
kwonly_rows(args) ==
    Flatten([i \in 1..Len(args.kwonlyargs) |->
                table_row(args.kwonlyargs[i].arg, annotation_text(args.kwonlyargs[i]),
                          <<>>, <<"_required_">>)])

\* format_args_table: [panic, text]; a panic unwinds out of main
format_args_table(args, checks) ==
    LET rows == positional_rows(args, 0, checks)
    IN IF rows.panic THEN [panic |-> TRUE, text |-> <<>>]
       ELSE [panic |-> FALSE, text |-> args_table_header \o rows.text \o kwonly_rows(args)]

(***************************************************************************)
(* Inputs of format_args_table: the parameter lists the parser can build.  *)
(* The parser rejects a parameter without a default after one with a       *)
(* default, so the defaults sit on a tail of posonlyargs followed by args. *)
(***************************************************************************)
PosOnlyNames == <<"p1", "p2", "p3">>
ArgNames == <<"a1", "a2", "a3", "a4", "a5">>
KwOnlyNames == <<"k1", "k2", "k3", "k4">>
DefaultTexts == <<"11", "12", "13", "14", "15", "16", "17", "18">>

\* the parameters of a function are all annotated or none is
AnnotationChoices == {None, Some(Name("str"))}

\* p positional-only and n positional parameters, the last t of the p + n
\* with a default, each default a different literal
PositionalParams(names, from, n, total, t, ann) ==
    [i \in 1..n |->
        ArgWithDefault(names[i], ann[i],
                       IF from + i > total - t
                       THEN Some(IntConstant(DefaultTexts[from + i])) ELSE None)]

ArgumentsSet ==
    UNION {
        {Arguments(PositionalParams(PosOnlyNames, 0, p, p + n, t, [i \in 1..p |-> None]),
                   PositionalParams(ArgNames, p, n, p + n, t, [i \in 1..n |-> ann]),
                   [i \in 1..k |->
                       ArgWithDefault(KwOnlyNames[i], None,
                                      IF kd[i] THEN Some(StrConstant(<<"kw">>)) ELSE None)])
            : t \in 0..(p + n), ann \in AnnotationChoices, kd \in [1..k -> BOOLEAN]}
        : p \in 0..MaxPosOnly, n \in 0..MaxArgs, k \in 0..MaxKwOnly}

(***************************************************************************)
(* Specification of format_args_table applied to one parameter list        *)
(***************************************************************************)
InitArgs ==
    /\ pc = "call"
    /\ input \in ArgumentsSet
    /\ output = <<>>
    /\ overflow_checks \in BOOLEAN
    /\ ast = <<>> /\ idx = 0 /\ markdown_content = <<>> /\ output_file = <<>>

ApplyFormatArgsTable ==
    /\ pc = "call"
    /\ LET r == format_args_table(input, overflow_checks)
       IN /\ output' = r.text
          /\ pc' = IF r.panic THEN "panicked" ELSE "returned"
    /\ UNCHANGED <<overflow_checks, ast, idx, markdown_content, output_file, input>>

NextArgs == ApplyFormatArgsTable

SpecArgs == InitArgs /\ [][NextArgs]_vars

\* the rows of a parameter table: its lines after the five heading lines
TableRows(text) == LET ls == Lines(text) IN SubSeq(ls, 6, Len(ls))

\* the Name cell of a row
RowName(row) == row[3]

\* the Default cell of a row: what stands between the last column separator
\* and the closing bar (a default's dump holds no separator)
RowDefault(row) ==
    LET last == CHOOSE i \in 1..Len(row) :
                    /\ row[i] = " | "
                    /\ \A j \in (i + 1)..Len(row) : row[j] # " | "
    IN SubSeq(row, last + 1, Len(row) - 1)

(***************************************************************************)
(* C1: with n positional parameters and d <= n defaults, row i (0-based)   *)
(* of the table shows "_required_" exactly when i < n - d and otherwise    *)
(* the dump of default number i - (n - d), which is that parameter's own   *)
(* default.                                                                *)
(***************************************************************************)
C1_DefaultsAlignToTail ==
    LET n == Len(input.args)
        d == Len(defaults_of(input))
        rows == TableRows(output)
    IN (pc = "returned" /\ d <= n) =>
          \A i \in 0..(n - 1) :
              /\ RowName(rows[i + 1]) = input.args[i + 1].arg
              /\ (RowDefault(rows[i + 1]) = <<"_required_">>) <=> (i < n - d)
              /\ i >= n - d =>
                    /\ RowDefault(rows[i + 1]) = DebugExpr(defaults_of(input)[i - (n - d) + 1])
                    /\ input.args[i + 1].default = Some(defaults_of(input)[i - (n - d) + 1])
              /\ i < n - d => input.args[i + 1].default = None

\* three positional parameters, two defaults
C1_Witness ==
    /\ pc = "returned"
    /\ Len(input.args) = 3
    /\ Len(defaults_of(input)) = 2
    /\ RowDefault(TableRows(output)[1]) = <<"_required_">>
    /\ RowDefault(TableRows(output)[2]) = <<"IntConstant", "(", "12", ")">>
    /\ RowDefault(TableRows(output)[3]) = <<"IntConstant", "(", "13", ")">>

(***************************************************************************)
(* C2: every keyword-only parameter has exactly one row, after all the     *)
(* positional rows and in declaration order, and the row shows             *)
(* "_required_" whether or not the parameter has a default.                *)
(***************************************************************************)
C2_KwOnlyRowsRequired ==
    LET n == Len(input.args)
        k == Len(input.kwonlyargs)
        rows == TableRows(output)
    IN pc = "returned" =>
          /\ Len(rows) = n + k
          /\ \A i \in 1..n : RowName(rows[i]) = input.args[i].arg
          /\ \A j \in 1..k :
                /\ RowName(rows[n + j]) = input.kwonlyargs[j].arg
                /\ RowDefault(rows[n + j]) = <<"_required_">>

C2_Witness ==
    /\ pc = "returned"
    /\ Len(input.args) = 1
    /\ Len(input.kwonlyargs) = 2
    /\ input.kwonlyargs[1].default = None
    /\ input.kwonlyargs[2].default # None
    /\ RowName(TableRows(output)[3]) = "k2"
    /\ RowDefault(TableRows(output)[3]) = <<"_required_">>

(***************************************************************************)
(* C11: when there are more defaults than positional parameters in         *)
(* args.args (d > n, which the parser produces exactly when a              *)
(* positional-only parameter has a default), format_args_table fails fast  *)
(* and produces no table: the call never returns a table.                  *)
(***************************************************************************)
C11_FailsFast ==
    LET n == Len(input.args)
        d == Len(defaults_of(input))
    IN (pc # "call" /\ d > n) => (pc = "panicked" /\ output = <<>>)

\* what the code does when d > n: the subtraction is evaluated only inside the
\* loop over args.args, so the call panics exactly when overflow is checked
\* and args.args is not empty; otherwise it returns a table whose positional
\* rows all show "_required_", although each of these parameters has a default
WrapsSilently ==
    LET n == Len(input.args)
        d == Len(defaults_of(input))
        rows == TableRows(output)
    IN (pc # "call" /\ d > n) =>
          /\ (pc = "panicked") <=> (overflow_checks /\ n > 0)
          /\ pc = "returned" =>
                /\ Len(rows) = n + Len(input.kwonlyargs)
                /\ \A i \in 1..n :
                      /\ RowDefault(rows[i]) = <<"_required_">>
                      /\ input.args[i].default # None

\* def shift(p1=11, /, a1=12) built without overflow checks: a table with the
\* row of a1 marked "_required_"
WrapsSilentlyReached ==
    /\ pc = "returned"
    /\ ~overflow_checks
    /\ Len(input.posonlyargs) = 1 /\ Len(input.args) = 1 /\ Len(input.kwonlyargs) = 0
    /\ input.posonlyargs[1].default # None
    /\ RowDefault(TableRows(output)[1]) = <<"_required_">>

\* def shift(p1=11, /) built with overflow checks: the loop body never runs and
\* the heading of the table is returned
EmptyLoopReached ==
    /\ pc = "returned"
    /\ overflow_checks
    /\ Len(input.posonlyargs) = 1 /\ Len(input.args) = 0
    /\ input.posonlyargs[1].default # None
    /\ output = args_table_header \o kwonly_rows(input)

(***************************************************************************)
(* Statements (rustpython_parser::ast::Stmt)                               *)
(***************************************************************************)
NoArguments == Arguments(<<>>, <<>>, <<>>)

Stmt(kind, op, exprs, body, orelse) ==
    [kind |-> kind, name |-> "", op |-> op, exprs |-> exprs, body |-> body,
     orelse |-> orelse, decorator_list |-> <<>>, args |-> NoArguments, returns |-> None]

ExprStmt(value) == Stmt("Expr", "", <<value>>, <<>>, <<>>)
Pass == Stmt("Pass", "", <<>>, <<>>, <<>>)
\* exprs is ret.value, an Option
Return(value) == Stmt("Return", "", value, <<>>, <<>>)
If(test, body, orelse) == Stmt("If", "", <<test>>, body, orelse)
\* exprs is assign.targets followed by assign.value
Assign(targets, value) == Stmt("Assign", "", Append(targets, value), <<>>, <<>>)
AugAssign(target, op, value) == Stmt("AugAssign", op, <<target, value>>, <<>>, <<>>)
For(target, iter, body) == Stmt("For", "", <<target, iter>>, body, <<>>)
While(test, body) == Stmt("While", "", <<test>>, body, <<>>)
\* exprs is raise.exc, an Option
Raise(exc) == Stmt("Raise", "", exc, <<>>, <<>>)
\* a kind neither renderer has an arm for
Import == Stmt("Import", "", <<>>, <<>>, <<>>)

FunctionDef(name, decorator_list, args, returns, body) ==
    [kind |-> "FunctionDef", name |-> name, op |-> "", exprs |-> <<>>, body |-> body,
     orelse |-> <<>>, decorator_list |-> decorator_list, args |-> args, returns |-> returns]

ClassDef(name, body) ==
    [kind |-> "ClassDef", name |-> name, op |-> "", exprs |-> <<>>, body |-> body,
     orelse |-> <<>>, decorator_list |-> <<>>, args |-> NoArguments, returns |-> None]

RECURSIVE DebugStmt(_)
\* format!("{:?}", stmt): the derived one-line structural dump of the statement
DebugStmt(s) ==
    <<s.kind, "(">>
        \o (IF s.kind \in {"FunctionDef", "ClassDef"} THEN <<s.name>> ELSE <<>>)
        \o (IF s.kind = "AugAssign" THEN <<s.op>> ELSE <<>>)
        \o Flatten([i \in 1..Len(s.exprs) |-> <<", ">> \o DebugExpr(s.exprs[i])])
        \o <<", body: [">> \o Flatten([i \in 1..Len(s.body) |-> DebugStmt(s.body[i])])
        \o <<"], orelse: [">> \o Flatten([i \in 1..Len(s.orelse) |-> DebugStmt(s.orelse[i])])
        \o <<"])">>

\* the statement is an expression statement holding a string literal
is_str_expr(stmt) == stmt.kind = "Expr" /\ stmt.exprs[1].kind = "StrConstant"

\* body.first() is a string literal: its text, as an Option
first_docstring(body) ==
    IF body # <<>> /\ is_str_expr(body[1]) THEN Some(body[1].exprs[1].id) ELSE None

Whitespace == {" ", "    ", "        ", NL}

RECURSIVE trim_start(_)
trim_start(s) ==
    IF s # <<>> /\ Head(s) \in Whitespace THEN trim_start(Tail(s)) ELSE s

RECURSIVE trim_end(_)
trim_end(s) ==
    IF s # <<>> /\ s[Len(s)] \in Whitespace THEN trim_end(SubSeq(s, 1, Len(s) - 1)) ELSE s

\* str::trim
trim(s) == trim_end(trim_start(s))

INDENT == "    "
INDENT2 == "        "
TQ == "\"\"\""

(***************************************************************************)
(* reconstruct_stmt: the renderer of the statements nested in a body       *)
(***************************************************************************)
RECURSIVE reconstruct_stmt(_)
reconstruct_stmt(stmt) ==
    LET nested(ss) == Flatten([i \in 1..Len(ss) |->
                                  <<INDENT>> \o reconstruct_stmt(ss[i]) \o <<NL>>])
        e == stmt.exprs
    IN CASE stmt.kind = "Expr" -> extract_type(e[1])
         [] stmt.kind = "Pass" -> <<"pass">>
         [] stmt.kind = "Return" ->
                IF e # None THEN <<"return ">> \o extract_type(e[1]) ELSE <<"return">>
         [] stmt.kind = "If" ->
                <<"if ">> \o extract_type(e[1]) \o <<":", NL>> \o nested(stmt.body)
                    \o (IF stmt.orelse # <<>>
                        THEN <<"else:", NL>> \o nested(stmt.orelse) ELSE <<>>)
         [] stmt.kind = "Assign" ->
                Join([i \in 1..(Len(e) - 1) |-> extract_type(e[i])], <<", ">>)
                    \o <<" = ">> \o extract_type(e[Len(e)])
         [] stmt.kind = "AugAssign" ->
                extract_type(e[1]) \o <<" ", stmt.op, "= ">> \o extract_type(e[2])
         [] stmt.kind = "Raise" ->
                IF e # None THEN <<"raise ">> \o extract_type(e[1]) ELSE <<"raise">>
         [] OTHER -> <<"# Unhandled statement: ">> \o DebugStmt(stmt)

(***************************************************************************)
(* reconstruct_function_def                                                *)
(***************************************************************************)
\* the decorator lines and the "def" line
function_signature(func_def) ==
    LET a == func_def.args.args
    IN Flatten([i \in 1..Len(func_def.decorator_list) |->
                   <<"@">> \o extract_type(func_def.decorator_list[i]) \o <<NL>>])
       \o <<"def ", func_def.name, "(">>
       \o Join([i \in 1..Len(a) |->
                   <<a[i].arg>> \o (IF a[i].annotation # None
                                    THEN <<": ">> \o extract_type(a[i].annotation[1])
                                    ELSE <<>>)], <<", ">>)
       \o (IF func_def.returns # None
           THEN <<" -> ">> \o extract_type(func_def.returns[1]) ELSE <<>>)
       \o <<"):", NL>>

\* the docstring block
function_docstring(func_def) ==
    LET d == first_docstring(func_def.body)
    IN IF d # None
       THEN <<INDENT, TQ, NL, INDENT>> \o trim(d[1]) \o <<NL, INDENT, TQ, NL>>
       ELSE <<>>

\* one iteration of the loop over func_def.body: the match on the statement
function_body_stmt(stmt) ==
    LET nested(ss) == Flatten([i \in 1..Len(ss) |->
                                  <<INDENT2>> \o reconstruct_stmt(ss[i]) \o <<NL>>])
        e == stmt.exprs
    IN CASE stmt.kind = "Expr" ->
                IF e[1].kind = "StrConstant" THEN <<>>
                ELSE <<INDENT>> \o extract_type(e[1]) \o <<NL>>
         [] stmt.kind = "Pass" -> <<INDENT, "pass", NL>>
         [] stmt.kind = "Return" ->
                IF e # None THEN <<INDENT, "return ">> \o extract_type(e[1]) \o <<NL>>
                ELSE <<INDENT, "return", NL>>
         [] stmt.kind = "If" ->
                <<INDENT, "if ">> \o extract_type(e[1]) \o <<":", NL>> \o nested(stmt.body)
                    \o (IF stmt.orelse # <<>>
                        THEN <<INDENT, "else:", NL>> \o nested(stmt.orelse) ELSE <<>>)
         [] stmt.kind = "Assign" ->
                <<INDENT>> \o Join([i \in 1..(Len(e) - 1) |-> extract_type(e[i])], <<", ">>)
                    \o <<" = ">> \o extract_type(e[Len(e)]) \o <<NL>>
         [] stmt.kind = "AugAssign" ->
                <<INDENT>> \o extract_type(e[1]) \o <<" ", stmt.op, "= ">>
                    \o extract_type(e[2]) \o <<NL>>
         [] stmt.kind = "For" ->
                <<INDENT, "for ">> \o extract_type(e[1]) \o <<" in ">> \o extract_type(e[2])
                    \o <<":", NL>> \o nested(stmt.body)
         [] stmt.kind = "While" ->
                <<INDENT, "while ">> \o extract_type(e[1]) \o <<":", NL>> \o nested(stmt.body)
         [] stmt.kind = "Raise" ->
                IF e # None THEN <<INDENT, "raise ">> \o extract_type(e[1]) \o <<NL>>
                ELSE <<INDENT, "raise", NL>>
         [] OTHER -> <<INDENT, "# Unhandled statement: ">> \o DebugStmt(stmt) \o <<NL>>

RECURSIVE function_body_aborting(_)
\* function_body giving up at the first statement its match has no arm for
function_body_aborting(body) ==
    IF body = <<>> THEN <<>>
    ELSE IF Head(body).kind \in {"Expr", "Pass", "Return", "If", "Assign", "AugAssign",
                                 "For", "While", "Raise"}
         THEN function_body_stmt(Head(body)) \o function_body_aborting(Tail(body))
         ELSE function_body_stmt(Head(body))

\* function_body rendering every string-literal statement like any other
\* expression statement
function_body_unskipped(body) ==
    Flatten([i \in 1..Len(body) |->
                IF is_str_expr(body[i])
                THEN <<INDENT>> \o extract_type(body[i].exprs[1]) \o <<NL>>
                ELSE function_body_stmt(body[i])])

\* the loop over func_def.body
function_body(body) ==
    Flatten([i \in 1..Len(body) |-> function_body_stmt(body[i])])

reconstruct_function_def(func_def) ==
    function_signature(func_def) \o function_docstring(func_def)
        \o function_body(func_def.body)

(***************************************************************************)
(* Inputs of reconstruct_function_def: the function greet with every body  *)
(* of at most MaxStmts statements, nested ones included                    *)
(***************************************************************************)
DocText == <<" ", "Say hi.", NL, NL, "More.", NL>>

\* the simple statements standing directly in the function body
SimpleStmts ==
    {Pass, Return(None), Return(Some(Name("x"))), ExprStmt(StrConstant(DocText)),
     ExprStmt(Name("x")), Assign(<<Name("a")>>, Name("x")),
     AugAssign(Name("a"), "Add", Name("x")), Raise(Some(Name("x"))), Import}

\* the simple statements standing in nested bodies
NestedSimpleStmts ==
    {Pass, Return(Some(Name("x"))), ExprStmt(StrConstant(DocText)), Raise(None), Import}

RECURSIVE StmtTrees(_, _), StmtForests(_, _)
\* the statement sequences with n statements in all
StmtForests(n, simple) ==
    IF n = 0 THEN {<<>>}
    ELSE UNION {{<<t>> \o f : t \in StmtTrees(m, simple), f \in StmtForests(n - m, simple)}
                   : m \in 1..n}

\* the statements with exactly n statements in them, themselves included;
\* the body of a compound statement is never empty
StmtTrees(n, simple) ==
    IF n = 1 THEN simple
    ELSE {For(Name("x"), Name("xs"), b) : b \in StmtForests(n - 1, NestedSimpleStmts)}
         \cup {While(Name("c"), b) : b \in StmtForests(n - 1, NestedSimpleStmts)}
         \cup UNION {{If(Name("c"), b, o) : b \in StmtForests(m, NestedSimpleStmts),
                                           o \in StmtForests(n - 1 - m, NestedSimpleStmts)}
                        : m \in 1..(n - 1)}

Bodies == UNION {StmtForests(n, SimpleStmts) : n \in 1..MaxStmts}

GreetArgs ==
    Arguments(<<>>,
              <<ArgWithDefault("name", Some(Name("str")), None),
                ArgWithDefault("greeting", Some(Name("str")), Some(StrConstant(<<"hi">>)))>>,
              <<>>)

Greet(body) == FunctionDef("greet", <<>>, GreetArgs, Some(Name("str")), body)

(***************************************************************************)
(* Specification of reconstruct_function_def applied to one function       *)
(***************************************************************************)
InitRecon ==
    /\ pc = "call"
    /\ input \in {Greet(b) : b \in Bodies}
    /\ output = <<>>
    /\ Idle

ApplyReconstructFunctionDef ==
    /\ pc = "call"
    /\ output' = reconstruct_function_def(input)
    /\ pc' = "returned"
    /\ UNCHANGED <<overflow_checks, ast, idx, markdown_content, output_file, input>>

NextRecon == ApplyReconstructFunctionDef

SpecRecon == InitRecon /\ [][NextRecon]_vars

\* the statement kinds the match of reconstruct_function_def has an arm for
TopLevelArms == {"Expr", "Pass", "Return", "If", "Assign", "AugAssign", "For", "While", "Raise"}
\* the statement kinds the match of reconstruct_stmt has an arm for
NestedArms == {"Expr", "Pass", "Return", "If", "Assign", "AugAssign", "Raise"}

Step(f, i) == [f |-> f, i |-> i]

RECURSIVE Sites(_, _, _)
\* the positions of the statements the renderers visit, as paths from the
\* function body: the statements of the body, of the bodies of its if, for and
\* while statements, and below those of the bodies of if statements
Sites(ss, f, top) ==
    UNION {
        {<<Step(f, i)>>}
        \cup (IF ss[i].kind = "If" \/ (top /\ ss[i].kind \in {"For", "While"})
              THEN {<<Step(f, i)>> \o q :
                        q \in Sites(ss[i].body, "body", FALSE)
                                \cup (IF ss[i].kind = "If"
                                      THEN Sites(ss[i].orelse, "orelse", FALSE) ELSE {})}
              ELSE {})
        : i \in 1..Len(ss)}

RECURSIVE StmtAt(_, _)
StmtAt(ss, path) ==
    LET s == ss[path[1].i]
    IN IF Len(path) = 1 THEN s
       ELSE StmtAt(IF path[2].f = "body" THEN s.body ELSE s.orelse, Tail(path))

RECURSIVE ReplaceAt(_, _, _)
ReplaceAt(ss, path, new) ==
    LET s == ss[path[1].i]
    IN IF Len(path) = 1 THEN [ss EXCEPT ![path[1].i] = new]
       ELSE IF path[2].f = "body"
            THEN [ss EXCEPT ![path[1].i] = [s EXCEPT !.body = ReplaceAt(s.body, Tail(path), new)]]
            ELSE [ss EXCEPT ![path[1].i] =
                      [s EXCEPT !.orelse = ReplaceAt(s.orelse, Tail(path), new)]]

\* the renderer visiting the statement at the path has no arm for its kind
Unhandled(ss, path) ==
    StmtAt(ss, path).kind \notin (IF Len(path) = 1 THEN TopLevelArms ELSE NestedArms)

PLACEHOLDER == "# Unhandled statement: "

PlaceholderLines(ls) == {k \in 1..Len(ls) : \E j \in 1..Len(ls[k]) : ls[k][j] = PLACEHOLDER}

IsReturnValue(stmt) == stmt.kind = "Return" /\ stmt.exprs # None
EndsWith(l, t) == Len(t) <= Len(l) /\ SubSeq(l, Len(l) - Len(t) + 1, Len(l)) = t

(***************************************************************************)
(* C8: when the first statement of the body is a string literal, the       *)
(* reconstruction holds exactly one docstring block, right after the def   *)
(* line, and nothing else for the docstring: past the block it is what it  *)
(* is past the line of a pass standing in the docstring's place.  Every    *)
(* return with a value directly in the body has exactly one line,          *)
(* "return <value>", where a pass in its place has its line.               *)
(***************************************************************************)
C8_OneDocstringBlock ==
    (pc = "returned" /\ first_docstring(input.body) # None) =>
        LET doc == first_docstring(input.body)[1]
            block == <<INDENT, TQ, NL, INDENT>> \o trim(doc) \o <<NL, INDENT, TQ, NL>>
            A == Lines(output)
            with_pass(i) == Lines(reconstruct_function_def(
                                Greet([input.body EXCEPT ![i] = Pass])))
        IN /\ Count(output, TQ) = 2
           /\ IsPrefix(function_signature(input) \o block, output)
           /\ SubSeq(A, 1 + Len(Lines(block)) + 1, Len(A))
                 = SubSeq(with_pass(1), 3, Len(with_pass(1)))
           /\ with_pass(1)[2] = <<INDENT, "pass">>
           /\ \A i \in 2..Len(input.body) :
                 IsReturnValue(input.body[i]) =>
                     /\ Len(A) = Len(with_pass(i))
                     /\ \E k \in 1..Len(A) :
                           /\ \A j \in 1..Len(A) : j # k => A[j] = with_pass(i)[j]
                           /\ with_pass(i)[k] = <<INDENT, "pass">>
                           /\ A[k] = <<INDENT, "return ">>
                                        \o extract_type(input.body[i].exprs[1])

C8_Witness ==
    /\ pc = "returned"
    /\ input.body = <<ExprStmt(StrConstant(DocText)), Return(Some(Name("x")))>>
    /\ SubSeq(Lines(output), 2, 7) =
          << <<INDENT, TQ>>, <<INDENT, "Say hi.">>, <<>>, <<"More.">>, <<INDENT, TQ>>,
             <<INDENT, "return ", "x">> >>
    /\ Len(Lines(output)) = 7

(***************************************************************************)
(* C9 (as claimed): a for or while statement nested in the body of an if,  *)
(* for or while is rendered as its loop header, like at the top level, and *)
(* not as a placeholder.                                                   *)
(***************************************************************************)
LoopHeader(s) ==
    IF s.kind = "For"
    THEN <<"for ">> \o extract_type(s.exprs[1]) \o <<" in ">> \o extract_type(s.exprs[2]) \o <<":">>
    ELSE <<"while ">> \o extract_type(s.exprs[1]) \o <<":">>

C9_NestedLoopsRendered ==
    pc = "returned" =>
        \A p \in Sites(input.body, "body", TRUE) :
            (Len(p) >= 2 /\ StmtAt(input.body, p).kind \in {"For", "While"}) =>
                /\ \E k \in 1..Len(Lines(output)) :
                      EndsWith(Lines(output)[k], LoopHeader(StmtAt(input.body, p)))
                /\ \A k \in 1..Len(Lines(output)) :
                      ~EndsWith(Lines(output)[k],
                                <<PLACEHOLDER>> \o DebugStmt(StmtAt(input.body, p)))

(***************************************************************************)
(* C10 (as claimed): a string-literal statement after the first statement  *)
(* of the body is rendered as an expression statement, so every statement  *)
(* of the body but the docstring has at least one line of the output.      *)
(***************************************************************************)
C10_LaterStringsRendered ==
    pc = "returned" =>
        LET head == Lines(function_signature(input) \o function_docstring(input))
            first == IF first_docstring(input.body) # None THEN 2 ELSE 1
        IN /\ Len(Lines(output)) >= Len(head) + (Len(input.body) - first + 1)
           /\ \A i \in 2..Len(input.body) :
                 is_str_expr(input.body[i]) =>
                     \E k \in 1..Len(Lines(output)) :
                         Lines(output)[k] = <<INDENT>> \o extract_type(input.body[i].exprs[1])

(***************************************************************************)
(* format_returns_table, format_function_doc                               *)
(***************************************************************************)
\* format_returns_table ignoring the annotation
format_returns_table_none(returns) ==
    <<NL, "**Returns:**", NL, NL, "| Type | Description |", NL, "| --- | --- |", NL,
      "| None | This function doesn't return a value. |", NL>>

format_returns_table(returns) ==
    <<NL, "**Returns:**", NL, NL, "| Type | Description |", NL, "| --- | --- |", NL>>
        \o (IF returns # None
            THEN <<"| ", BT>> \o extract_type(returns[1]) \o <<BT, " | ", " |", NL>>
            ELSE <<"| None | This function doesn't return a value. |", NL>>)

RECURSIVE trim_matches(_, _)
\* str::trim_matches(c): c stripped from both ends
trim_matches(s, c) ==
    IF s # <<>> /\ Head(s) = c THEN trim_matches(Tail(s), c)
    ELSE IF s # <<>> /\ s[Len(s)] = c THEN trim_matches(SubSeq(s, 1, Len(s) - 1), c)
    ELSE s

\* docstring.splitn(2, "\n\n").nth(1).unwrap_or(""): what follows the first blank line
after_blank_line(s) ==
    LET at == {i \in 1..(Len(s) - 1) : s[i] = NL /\ s[i + 1] = NL}
    IN IF at = {} THEN <<>>
       ELSE LET i == CHOOSE i \in at : \A j \in at : i <= j
            IN SubSeq(s, i + 2, Len(s))

\* format_function_doc: [panic, text]
format_function_doc(func_def, checks) ==
    LET d == first_docstring(func_def.body)
        table == format_args_table(func_def.args, checks)
    IN IF table.panic THEN [panic |-> TRUE, text |-> <<>>]
       ELSE [panic |-> FALSE,
             text |->
                <<"### ", BT>> \o trim_matches(<<func_def.name>>, BT) \o <<BT, NL, NL>>
                \o (IF d # None
                    THEN trim_matches(trim_matches(trim(d[1]), "\""), "'") \o <<NL, NL>>
                    ELSE <<>>)
                \o table.text
                \o format_returns_table(func_def.returns)
                \o <<NL, "**Description:**", NL, NL>>
                \o (IF d # None THEN trim(after_blank_line(d[1])) \o <<NL>> ELSE <<>>)]

(***************************************************************************)
(* main: the section of a class                                            *)
(***************************************************************************)
is_classmethod(decorators) ==
    \E i \in 1..Len(decorators) :
        decorators[i].kind = "Name" /\ decorators[i].id = <<"classmethod">>

\* the raw docstring of a body followed by end, or nothing
raw_docstring(body, end) ==
    IF first_docstring(body) # None THEN first_docstring(body)[1] \o end ELSE <<>>

accordion_open(file_name, gap) ==
    <<"<Accordion", NL, "  title=\"Source code in ", BT, "zenml/", file_name, "/", file_name,
      ".py", BT, "\"", NL>> \o gap \o <<">", NL>>

code_fence(lang) == <<BT, BT, BT>> \o lang \o <<NL>>

accordion_close == <<"</Accordion>", NL, NL>>

is_function_def(stmt) == stmt.kind = "FunctionDef"

\* the subsection of one method: [panic, text]
method_section(func_def, file_name, checks) ==
    LET table == format_args_table(func_def.args, checks)
    IN IF table.panic THEN [panic |-> TRUE, text |-> <<>>]
       ELSE [panic |-> FALSE,
             text |->
                <<"#### ", BT, func_def.name, "()", BT, " ", BT>>
                \o (IF is_classmethod(func_def.decorator_list) THEN <<"classmethod">> ELSE <<>>)
                \o <<BT, NL, NL>>
                \o table.text
                \o raw_docstring(func_def.body, <<NL>>)
                \o accordion_open(file_name, <<NL>>)
                \o code_fence(<<"py">>)
                \o reconstruct_function_def(func_def)
                \o code_fence(<<>>)
                \o accordion_close
                \o format_returns_table(func_def.returns)]

\* the section of a top-level class: [panic, text]
class_section(class_def, file_name, checks) ==
    LET methods == SelectSeq(class_def.body, is_function_def)
        subs == [i \in 1..Len(methods) |-> method_section(methods[i], file_name, checks)]
    IN IF \E i \in 1..Len(subs) : subs[i].panic THEN [panic |-> TRUE, text |-> <<>>]
       ELSE [panic |-> FALSE,
             text |->
                <<"### ", BT, class_def.name, BT, NL>>
                \o <<" ([Integration](/integrations-integration/#zenml.integrations.integration.Integration \"zenml.integrations.integration.Integration\"))", NL, NL>>
                \o raw_docstring(class_def.body, <<NL>>)
                \o accordion_open(file_name, <<>>)
                \o code_fence(<<"py">>)
                \o <<"class ", class_def.name, ":", NL>>
                \o Flatten([i \in 1..Len(methods) |-> reconstruct_function_def(methods[i])])
                \o code_fence(<<>>)
                \o accordion_close
                \o Flatten([i \in 1..Len(subs) |-> subs[i].text])]

\* the frontmatter and the module heading
module_header(file_name) ==
    <<"---", NL, "title: ", file_name, NL, "---", NL, NL,
      "## ", BT, "zenml.", file_name, BT, " ", BT, "special", BT, NL, NL>>

\* what one iteration of the loop over the module appends: [panic, text]
statement_section(stmt, file_name, checks) ==
    IF stmt.kind = "ClassDef" THEN class_section(stmt, file_name, checks)
    ELSE IF stmt.kind = "FunctionDef" THEN format_function_doc(stmt, checks)
    ELSE [panic |-> FALSE, text |-> <<>>]

\* push_str inserting at the front of the string
push_front(s, t) == t \o s

\* String::push_str
push_str(s, t) == s \o t

(***************************************************************************)
(* Inputs of main: the modules of at most MaxModule top-level statements   *)
(***************************************************************************)
FileName == "greet"

GreetFunction ==
    Greet(<<ExprStmt(StrConstant(<<"Say hi.">>)), Return(Some(Name("greeting")))>>)

\* def shift(p=1, /, a=2): pass -- more defaults than parameters in args.args
ShiftFunction ==
    FunctionDef("shift", <<>>,
                Arguments(<<ArgWithDefault("p", None, Some(IntConstant("1")))>>,
                          <<ArgWithDefault("a", None, Some(IntConstant("2")))>>, <<>>),
                None, <<Pass>>)

RunnerClass ==
    ClassDef("Runner",
             <<ExprStmt(StrConstant(<<"Runs.">>)),
               FunctionDef("make", <<Name("classmethod")>>,
                           Arguments(<<>>, <<ArgWithDefault("cls", None, None)>>, <<>>),
                           None, <<Return(Some(Name("cls")))>>),
               Assign(<<Name("a")>>, Name("x")),
               FunctionDef("run", <<>>,
                           Arguments(<<>>, <<ArgWithDefault("self", None, None)>>, <<>>),
                           Some(Name("int")),
                           <<ExprStmt(StrConstant(<<"Run it.">>)),
                             For(Name("x"), Name("xs"), <<Import>>)>>)>>)

TopLevelStmts ==
    {GreetFunction, ShiftFunction, RunnerClass, Import, ExprStmt(StrConstant(<<"Module text.">>))}

RECURSIVE SeqsUpTo(_, _)
SeqsUpTo(S, n) ==
    IF n = 0 THEN {<<>>}
    ELSE SeqsUpTo(S, n - 1) \cup {Append(q, x) : q \in {r \in SeqsUpTo(S, n - 1) : Len(r) = n - 1},
                                                 x \in S}

Modules == SeqsUpTo(TopLevelStmts, MaxModule)

(***************************************************************************)
(* main                                                                    *)
(***************************************************************************)
Init ==
    /\ pc = "read"
    /\ overflow_checks \in BOOLEAN
    /\ input \in Modules          \* the module the input file holds
    /\ ast = <<>>
    /\ idx = 0
    /\ markdown_content = <<>>
    /\ output_file = <<>>
    /\ output = <<>>

\* fs::read_to_string(&args.file).expect(..)
ReadInput ==
    /\ pc = "read"
    /\ pc' = "parse"
    /\ UNCHANGED <<overflow_checks, ast, idx, markdown_content, output_file, input, output>>

ReadInputFails ==
    /\ pc = "read"
    /\ pc' = "failed"
    /\ UNCHANGED <<overflow_checks, ast, idx, markdown_content, output_file, input, output>>

\* ast::Suite::parse(&code, "<string>").expect(..)
ParseInput ==
    /\ pc = "parse"
    /\ ast' = input
    /\ pc' = "mkdir"
    /\ UNCHANGED <<overflow_checks, idx, markdown_content, output_file, input, output>>

ParseInputFails ==
    /\ pc = "parse"
    /\ pc' = "failed"
    /\ UNCHANGED <<overflow_checks, ast, idx, markdown_content, output_file, input, output>>

\* fs::create_dir_all(&args.output_path).expect(..); the file stem that
\* follows is there whenever the file could be read
CreateOutputDir ==
    /\ pc = "mkdir"
    /\ pc' = "header"
    /\ UNCHANGED <<overflow_checks, ast, idx, markdown_content, output_file, input, output>>

CreateOutputDirFails ==
    /\ pc = "mkdir"
    /\ pc' = "failed"
    /\ UNCHANGED <<overflow_checks, ast, idx, markdown_content, output_file, input, output>>

\* the module header and the module docstring
WriteHeader ==
    /\ pc = "header"
    /\ markdown_content' =
          push_str(push_str(markdown_content, module_header(FileName)),
                   raw_docstring(ast, <<NL, NL>>))
    /\ pc' = "loop"
    /\ UNCHANGED <<overflow_checks, ast, idx, output_file, input, output>>

\* ProcessStmt writing the document to the file as it grows
ProcessStmtWritingThrough ==
    /\ pc = "loop"
    /\ idx < Len(ast)
    /\ ~statement_section(ast[idx + 1], FileName, overflow_checks).panic
    /\ markdown_content' =
          push_str(markdown_content,
                   statement_section(ast[idx + 1], FileName, overflow_checks).text)
    /\ output_file' = <<markdown_content'>>
    /\ idx' = idx + 1
    /\ UNCHANGED <<pc, overflow_checks, ast, input, output>>

\* one iteration of the loop over the module's statements
ProcessStmt ==
    /\ pc = "loop"
    /\ idx < Len(ast)
    /\ ~statement_section(ast[idx + 1], FileName, overflow_checks).panic
    /\ markdown_content' =
          push_str(markdown_content,
                   statement_section(ast[idx + 1], FileName, overflow_checks).text)
    /\ idx' = idx + 1
    /\ UNCHANGED <<pc, overflow_checks, ast, output_file, input, output>>

\* the iteration panics: args_len - defaults_len overflows in format_args_table
ProcessStmtPanics ==
    /\ pc = "loop"
    /\ idx < Len(ast)
    /\ statement_section(ast[idx + 1], FileName, overflow_checks).panic
    /\ pc' = "failed"
    /\ UNCHANGED <<overflow_checks, ast, idx, markdown_content, output_file, input, output>>

\* fs::write(&output_file, markdown_content).expect(..)
WriteFile ==
    /\ pc = "loop"
    /\ idx = Len(ast)
    /\ output_file' = Append(output_file, markdown_content)
    /\ pc' = "done"
    /\ UNCHANGED <<overflow_checks, ast, idx, markdown_content, input, output>>

WriteFileFails ==
    /\ pc = "loop"
    /\ idx = Len(ast)
    /\ pc' = "failed"
    /\ UNCHANGED <<overflow_checks, ast, idx, markdown_content, output_file, input, output>>

Next ==
    \/ ReadInput \/ ReadInputFails
    \/ ParseInput \/ ParseInputFails
    \/ CreateOutputDir \/ CreateOutputDirFails
    \/ WriteHeader
    \/ ProcessStmt \/ ProcessStmtPanics
    \/ WriteFile \/ WriteFileFails

Spec == Init /\ [][Next]_vars

\* the names in the level-three headings of a document, in order
SectionNames(doc) ==
    LET at == Positions(doc, "### ")
    IN [k \in 1..Len(at) |-> doc[at[k] + 2]]

IsDeclaration(stmt) == stmt.kind \in {"ClassDef", "FunctionDef"}

DeclarationNames(stmts) ==
    LET ds == SelectSeq(stmts, IsDeclaration) IN [i \in 1..Len(ds) |-> ds[i].name]

\* sub occurs in doc as a run of consecutive tokens
Contains(doc, sub) ==
    \E i \in 0..(Len(doc) - Len(sub)) : SubSeq(doc, i + 1, i + Len(sub)) = sub

(***************************************************************************)
(* C4: every step of main leaves the document so far as a prefix of the    *)
(* document after it; a top-level statement that is neither a class nor a  *)
(* function appends nothing; the frontmatter and the module heading open   *)
(* the document; and the sections of the document, while it grows and when *)
(* it is written, are those of the classes and functions processed so far, *)
(* in declaration order.                                                   *)
(***************************************************************************)
C4_AppendOnlyInOrder ==
    /\ [][/\ IsPrefix(markdown_content, markdown_content')
          /\ (pc = "loop" /\ idx < Len(ast) /\ ~IsDeclaration(ast[idx + 1]))
                => markdown_content' = markdown_content]_vars
    /\ [](pc \in {"loop", "done"} =>
            /\ IsPrefix(module_header(FileName), markdown_content)
            /\ SectionNames(markdown_content) = DeclarationNames(SubSeq(ast, 1, idx)))
    /\ [](pc = "done" =>
            /\ idx = Len(ast)
            /\ SectionNames(output_file[1]) = DeclarationNames(ast))

C4_Witness ==
    /\ pc = "done"
    /\ ast = <<RunnerClass, Import, GreetFunction>>
    /\ SectionNames(output_file[1]) = <<"Runner", "greet">>

(***************************************************************************)
(* C6: main runs read, parse, create directory, assemble, write in that    *)
(* order; a failure ends the run, nothing follows it; the file is written  *)
(* at most once, only when the whole document is assembled, and then holds *)
(* that document; a failed run has written nothing.                        *)
(***************************************************************************)
StepOrder ==
    {<<"read", "parse">>, <<"parse", "mkdir">>, <<"mkdir", "header">>, <<"header", "loop">>,
     <<"loop", "loop">>, <<"loop", "done">>}
    \cup {<<from, "failed">> : from \in {"read", "parse", "mkdir", "loop"}}

GreetRows ==
    args_table_header
        \o <<"| ", BT, "name", BT, " | ", BT, "str", BT, " | ", " | ", "_required_", " |", NL>>
        \o <<"| ", BT, "greeting", BT, " | ", BT, "str", BT, " | ", " | ",
             "StrConstant", "(", "hi", ")", " |", NL>>
        \o <<NL, "**Returns:**", NL, NL, "| Type | Description |", NL, "| --- | --- |", NL,
             "| ", BT, "str", BT, " | ", " |", NL>>

HasGreet == \E i \in 1..Len(ast) : ast[i] = GreetFunction

C7_GreetHasSourceBlock ==
    (pc = "done" /\ HasGreet) =>
        /\ Contains(output_file[1], GreetRows)
        /\ Contains(output_file[1], <<"def ", "greet", "(">>)

(***************************************************************************)
(* C7 (amended): for a module with the top-level function greet, the       *)
(* document holds the two rows of its parameter table (name required,      *)
(* greeting with the dump of its default) and its return row, and no       *)
(* reconstructed source of greet: only methods of classes are              *)
(* reconstructed.                                                          *)
(***************************************************************************)
C7_GreetTablesNoSource ==
    (pc = "done" /\ HasGreet) =>
        /\ Contains(output_file[1], GreetRows)
        /\ ~Contains(output_file[1], <<"def ", "greet">>)

C7_Witness ==
    /\ pc = "done"
    /\ ast = <<GreetFunction>>
    /\ Contains(output_file[1], GreetRows)
    /\ Count(output_file[1], "def ") = 0

====
